---- MODULE Spec2Model ----
(***************************************************************************)
(* A model of the build pipeline of spear-cli                              *)
(* (packages/spear-cli/src/magic.ts): magic(), loadSettings(), bundle(),   *)
(* the srcDir filter of loadSettings and the plugin hook loops.            *)
(*                                                                         *)
(* Strings whose characters matter (the paths of Settings.srcDir) are      *)
(* sequences of one-character strings, so that startsWith and endsWith     *)
(* are computed character by character as String.prototype does.           *)
(***************************************************************************)
EXTENDS Integers, Sequences, FiniteSets, TLC

(***************************************************************************)
(* Bounds of the model.                                                    *)
(***************************************************************************)
\* longest srcDir list the filter is applied to
MaxDirs == 4
\* file-change events the watcher delivers in one behaviour
MaxEvents == 2
\* components of a generated catalog
MaxComponents == 3
\* objects (Settings and State records) alive at one time
MaxObjs == 6

(***************************************************************************)
(* Strings.                                                                *)
(***************************************************************************)
\* String.prototype.startsWith
StartsWith(s, t) ==
    /\ Len(t) <= Len(s)
    /\ SubSeq(s, 1, Len(t)) = t

\* String.prototype.endsWith
EndsWith(s, t) ==
    /\ Len(t) <= Len(s)
    /\ SubSeq(s, Len(s) - Len(t) + 1, Len(s)) = t

\* the literal "components" of loadSettings
ComponentsSuffix == <<"c", "o", "m", "p", "o", "n", "e", "n", "t", "s">>

\* the directories the project's settings may name
DirA == <<"/", "a">>
DirAB == DirA \o <<"/", "b">>
DirAComponents == DirA \o <<"/">> \o ComponentsSuffix
DirAComponentsSub == DirAComponents \o <<"/", "s", "u", "b">>
DirAComponentsX == DirAComponents \o <<"x">>
DirPool == {DirA, DirAB, DirAComponents, DirAComponentsSub, DirAComponentsX}

\* every list of at most n elements of S
SeqsUpTo(S, n) == UNION {[1..k -> S] : k \in 0..n}

(***************************************************************************)
(* loadSettings: the srcDir filter.                                        *)
(***************************************************************************)
\* the callback handed to some(): is srcDir to be removed because of srcDir2
SomeCallback(srcDir, srcDir2) ==
    IF srcDir # srcDir2 /\ ~EndsWith(srcDir2, ComponentsSuffix)
    THEN FALSE
    ELSE srcDir # srcDir2 /\ StartsWith(srcDir, srcDir2)

\* a filter that drops the first entry of a list of several
FilterSrcDirFirstDropped(list) == IF Len(list) > 1 THEN Tail(list) ELSE list

\* Settings.srcDir.filter(...): the callbacks read the list being filtered
FilterSrcDir(list) ==
    LET keep(srcDir) == ~\E i \in 1..Len(list) : SomeCallback(srcDir, list[i])
    IN  SelectSeq(list, keep)

(***************************************************************************)
(* The document model: nodes, components, pages, State.                    *)
(***************************************************************************)
\* an element (or text) node: its tag and its child nodes
El(tag, kids) == [tag |-> tag, childNodes |-> kids]

\* the component of the catalog a tag names (Array.find: the first match),
\* 0 when there is none
FindComponent(componentsList, tag) ==
    LET hits == {i \in 1..Len(componentsList) : componentsList[i].tagName = tag}
    IN  IF hits = {} THEN 0 ELSE CHOOSE i \in hits : \A j \in hits : i <= j

RECURSIVE FlatMap(_, _)
\* the concatenation of f[1], ..., f[n], f a sequence of sequences
FlatMap(f, n) == IF n = 0 THEN <<>> ELSE FlatMap(f, n - 1) \o f[n]

RECURSIVE parseElements(_, _)
\* parseElements(state, nodes, jsGenerator, Settings) of utils/dom: one
\* resolution pass. A node whose tag names a component of the catalog is
\* replaced by a copy of that component's markup; the inserted markup is not
\* scanned again in this pass. Any other node is kept, its children resolved.
parseElements(componentsList, nodes) ==
    LET one(node) ==
            LET c == FindComponent(componentsList, node.tag)
            IN  IF c # 0
                THEN componentsList[c].rawData
                ELSE <<El(node.tag, parseElements(componentsList, node.childNodes))>>
    IN  FlatMap([i \in 1..Len(nodes) |-> one(nodes[i])], Len(nodes))

RECURSIVE HasReference(_, _)
\* some node of the trees still names a component of the catalog
HasReference(componentsList, nodes) ==
    \E i \in 1..Len(nodes) :
        \/ FindComponent(componentsList, nodes[i].tag) # 0
        \/ HasReference(componentsList, nodes[i].childNodes)

\* a State that starts with properties an earlier pass left
StateWithProps ==
    [pagesList |-> <<>>, componentsList |-> <<>>, globalProps |-> {"kept"},
     assetsFiles |-> <<>>]

\* the State bundle() constructs: everything empty
EmptyState ==
    [pagesList |-> <<>>, componentsList |-> <<>>, globalProps |-> {},
     assetsFiles |-> <<>>]

(***************************************************************************)
(* The project on disk: component files, page files, the settings file.    *)
(***************************************************************************)
\* a component file and a page file
ComponentFile(dir, fname, tagName, markup) ==
    [dir |-> dir, fname |-> fname, tagName |-> tagName, markup |-> markup]

PageFile(dir, fname, markup, alias) ==
    [dir |-> dir, fname |-> fname, markup |-> markup, alias |-> alias]

\* dir is the directory d or lies below it
IsUnder(dir, d) == dir = d \/ StartsWith(dir, d \o <<"/">>)

\* a page that references c-box, c-box references c-label (two levels); a
\* second page, in a sub-directory, with a route alias
ProjectNested ==
    [components |->
        << ComponentFile(DirAComponents, "box.spear", "c-box",
                         <<El("div", <<El("c-label", <<>>)>>)>>),
           ComponentFile(DirAComponents, "label.spear", "c-label",
                         <<El("span", <<El("Y", <<>>)>>)>>) >>,
     pages |->
        << PageFile(DirA, "index.html", <<El("c-box", <<>>)>>, ""),
           PageFile(DirAB, "b.html", <<El("p", <<El("c-label", <<>>)>>)>>, "en/b.html") >>]

\* a project one of whose component files is empty
ProjectEmptyComponent ==
    [components |->
        << ComponentFile(DirAComponents, "box.spear", "c-box",
                         <<El("div", <<El("X", <<>>)>>)>>),
           ComponentFile(DirAComponentsSub, "void.spear", "c-void", <<>>) >>,
     pages |->
        << PageFile(DirA, "index.html", <<El("c-box", <<>>)>>, "") >>]

Projects == {ProjectNested, ProjectEmptyComponent}

\* the tag names and the root elements of the generated components
CompTags == <<"c-box", "c-label", "c-deep", "c-leaf", "c-tail">>
RootTags == <<"div", "span", "p", "ul", "li">>

\* what a generated component's root element may hold: nothing, a text, or
\* one reference to a component of the catalog
GeneratedKids(n) ==
    {<<>>, <<El("X", <<>>)>>} \cup {<<El(CompTags[k], <<>>)>> : k \in 1..n}

\* the markup of a generated component file: empty, or one root element
GeneratedMarkup(i, n) ==
    {<<>>} \cup {<<El(RootTags[i], kids)>> : kids \in GeneratedKids(n)}

\* every project of n components with a page that references the first
\* component and a page that references the last
GeneratedProjects(n) ==
    { [components |->
          [i \in 1..n |-> ComponentFile(DirAComponents, CompTags[i], CompTags[i], m[i])],
       pages |-> <<PageFile(DirA, "index.html", page, ""),
                   PageFile(DirA, "last.html", <<El(CompTags[n], <<>>)>>, "")>>] :
        m \in {f \in [1..n -> UNION {GeneratedMarkup(i, n) : i \in 1..n}] :
                  \A i \in 1..n : f[i] \in GeneratedMarkup(i, n)},
        page \in {<<El(CompTags[1], <<>>)>>,
                  <<El("main", <<El(CompTags[1], <<>>), El("X", <<>>)>>)>>} }

\* a plugin: its name and the hooks it defines
Plugin(name, hooks) == [pluginName |-> name, hooks |-> hooks]

Checkpoints == {"configuration", "beforeBuild", "afterBuild", "bundle"}

PluginA == Plugin("A", {"configuration", "beforeBuild"})
PluginB == Plugin("B", {"beforeBuild", "afterBuild", "bundle"})
PluginC == Plugin("C", {"configuration", "afterBuild"})

\* what the settings file may hold (loadFile's result); NoFile: there is none
NoFile == [present |-> FALSE]

SettingsFile(plugins, srcDir, componentsFolder) ==
    [present |-> TRUE, plugins |-> plugins, srcDir |-> srcDir,
     componentsFolder |-> componentsFolder]

\* initializeArgument: the default Settings
DefaultSettings(distDir) ==
    [projectName |-> "Spear CLI", plugins |-> <<>>, srcDir |-> <<DirA>>,
     componentsFolder |-> <<DirAComponents>>, distDir |-> distDir]

(***************************************************************************)
(* The state of the program.                                               *)
(***************************************************************************)
VARIABLES
    action,          \* args.action
    project,         \* the component and page files on disk
    file,            \* what loadFile reads from the settings file
    Settings,        \* the module-level binding Settings: an object id
    heap,            \* the Settings and State objects, by id
    retained,        \* the object a plugin's hook last returned, which it keeps
    pc,              \* where each run (magic, or one watch callback) stands
    plist,           \* the plugins a run's hook loop has still to visit
    loop,            \* the directories a run's parse loop has still to visit
    idx,             \* the index of a run's loop over components or pages
    half,            \* which of the two resolver runs of a page is next
    state,           \* bundle's local binding state: an object id
    componentsList,  \* bundle's local componentsList (re-resolution)
    log,             \* what each run has done, in order
    result,          \* how each run's bundle() ended
    watching,        \* the watcher is registered
    magicResult,     \* how magic() ended
    dist,            \* the pages last written to the output directory
    pending          \* the calls of createDir and dumpPages that have not completed

vars ==
    <<action, project, file, Settings, heap, retained, pc, plist, loop, idx, half,
      state, componentsList, log, result, watching, magicResult, dist, pending>>

\* magic() is run 0; run r > 0 is the r-th call of the watcher's callback
Runs == 0..MaxEvents

\* no object
NoRef == 0

(***************************************************************************)
(* Objects.                                                                *)
(***************************************************************************)
\* the id a new object gets
NewId(h) == CHOOSE i \in 1..MaxObjs : i \notin DOMAIN h /\ \A j \in 1..(i - 1) : j \in DOMAIN h

\* h with a new object of value v
Alloc(h, v) == h @@ (NewId(h) :> v)

\* h without the objects nothing refers to any more
Collect(h, roots) == [i \in (DOMAIN h) \cap roots |-> h[i]]

\* the objects the program and the plugins can still reach
Roots(settings, st, ret, pcs) ==
    ({settings, ret} \cup {st[r] : r \in {q \in Runs : pcs[q] # "done"}}) \ {NoRef}

\* stateDeepCopy, defaultSettingDeepCopy of utils/util: a new object that
\* holds a structural copy of the value of object ref
stateDeepCopy(h, ref) == [ref |-> NewId(h), heap |-> Alloc(h, h[ref])]

\* the binding that keeps the very object the hook returned
ReplacedAliasing(h, newRef) == [ref |-> newRef, heap |-> h]

\* if (newState) { state = stateDeepCopy(newState) }: the new binding
Replaced(h, newRef) == stateDeepCopy(h, newRef)

(***************************************************************************)
(* Plugins. A hook is handed the pipeline's own object. It may write to it *)
(* in place (a State's globalProps, the scratch space of plugins; a        *)
(* Settings' projectName), and it ends by returning nothing, by returning  *)
(* the object it was handed, by returning an object of its own, or by      *)
(* throwing.                                                               *)
(***************************************************************************)
\* the value after a hook wrote to the object in place
InPlace(cp, v) ==
    IF cp = "configuration"
    THEN [v EXCEPT !.projectName = "renamed"]
    ELSE [v EXCEPT !.globalProps = @ \cup {"inPlace"}]

\* the value of the object a hook builds from the value v it was handed
Make(kind, v) ==
    CASE kind = "plugins" -> [v EXCEPT !.plugins = IF @ = <<>> THEN @ ELSE Tail(@)]
      [] kind = "srcDir" ->
            [v EXCEPT !.srcDir = IF Len(@) < MaxDirs THEN @ \o <<DirAB>> ELSE @]
      [] kind = "props" -> [v EXCEPT !.globalProps = @ \cup {"returned"}]

\* how one invocation of a hook may go
Behaviours(cp) ==
    [inplace : BOOLEAN, out : {"void", "threw", "same"}, kind : {"none"}]
    \cup [inplace : BOOLEAN, out : {"new"},
          kind : IF cp = "configuration" THEN {"plugins", "srcDir"} ELSE {"props"}]

\* invoke the hook cp of the next plugin of run r's loop, if it has one
InvokeHook(r, cp) ==
    LET plugin == Head(plist[r])
        handed == IF cp = "configuration" THEN Settings ELSE state[r]
    IN  /\ plist' = [plist EXCEPT ![r] = Tail(@)]
        /\ IF cp \notin plugin.hooks
           THEN UNCHANGED <<Settings, heap, state, retained, log>>
           ELSE \E b \in Behaviours(cp) :
                LET h1 == IF b.inplace
                          THEN [heap EXCEPT ![handed] = InPlace(cp, @)]
                          ELSE heap
                    h2 == IF b.out = "new" THEN Alloc(h1, Make(b.kind, h1[handed])) ELSE h1
                    newState == CASE b.out = "new" -> NewId(h1)
                                  [] b.out = "same" -> handed
                                  [] OTHER -> NoRef
                    rep == IF newState # NoRef
                           THEN Replaced(h2, newState)
                           ELSE [ref |-> handed, heap |-> h2]
                    called == [ev |-> "hook", cp |-> cp, plugin |-> plugin.pluginName,
                               arg |-> heap[handed],
                               out |-> IF newState # NoRef THEN "value" ELSE b.out,
                               left |-> rep.heap[rep.ref]]
                    warned == [ev |-> "warn", cp |-> cp, plugin |-> plugin.pluginName]
                IN  /\ Cardinality(DOMAIN heap) + 2 <= MaxObjs
                    /\ Settings' = IF cp = "configuration" THEN rep.ref ELSE Settings
                    /\ state' = IF cp = "configuration" THEN state
                                ELSE [state EXCEPT ![r] = rep.ref]
                    /\ retained' = IF newState # NoRef THEN newState ELSE retained
                    /\ heap' = Collect(rep.heap, Roots(Settings', state', retained', pc))
                    /\ log' = [log EXCEPT ![r] =
                                 IF b.out = "threw" THEN @ \o <<called, warned>>
                                 ELSE Append(@, called)]

(***************************************************************************)
(* magic(), loadSettings().                                                *)
(***************************************************************************)
inputs == <<action, project, file>>

RECURSIVE Reverse(_)
Reverse(list) == IF list = <<>> THEN <<>> ELSE Append(Reverse(Tail(list)), Head(list))

\* a loop that visits the plugins last to first
PluginLoopReversed(settings) == Reverse(settings.plugins)

\* for (const plugin of Settings.plugins): the plugins the loop visits, in
\* the order it visits them
PluginLoop(settings) == settings.plugins

\* a run's record of a hook loop it enters, with Settings.plugins as it is
Loop(cp) == [ev |-> "loop", cp |-> cp, plugins |-> heap[Settings].plugins]

\* a run's record of a stage it has reached
Stage(name) == [ev |-> "stage", name |-> name]

\* magic: initializeArgument, the watch mode's distDir, the call of loadSettings
MagicStart ==
    /\ pc[0] = "idle"
    /\ Settings' = NewId(heap)
    /\ heap' = Alloc(heap, DefaultSettings(IF action = "watch" THEN "tmpBuild" ELSE "dist"))
    /\ pc' = [pc EXCEPT ![0] = "loadFile"]
    /\ UNCHANGED <<inputs, pending, retained, plist, loop, idx, half, state, componentsList, log,
                   result, watching, magicResult, dist>>

\* a watcher whose callback waits for the pass before it to end
ChangeEventSerialized(r) ==
    /\ r > 0
    /\ watching
    /\ pc[r] = "idle"
    /\ pc[r - 1] = "done"
    /\ pc' = [pc EXCEPT ![r] = "loadFile"]
    /\ UNCHANGED <<inputs, pending, Settings, heap, retained, plist, loop, idx, half,
                   state, componentsList, log, result, watching, magicResult, dist>>

\* the watcher's callback is called: it calls loadSettings
ChangeEvent(r) ==
    /\ r > 0
    /\ watching
    /\ pc[r] = "idle"
    /\ pc[r - 1] # "idle"
    /\ pc' = [pc EXCEPT ![r] = "loadFile"]
    /\ UNCHANGED <<inputs, pending, Settings, heap, retained, plist, loop, idx, half, state,
                   componentsList, log, result, watching, magicResult, dist>>

\* loadSettingsFromFile: every key of the file's data is written to Settings
loadSettingsFromFile(v) ==
    IF file.present
    THEN [v EXCEPT !.plugins = file.plugins, !.srcDir = file.srcDir,
                   !.componentsFolder = file.componentsFolder]
    ELSE v

\* loadSettings up to its hook loop: the file, then the srcDir filter
LoadSettings(r) ==
    /\ pc[r] = "loadFile"
    /\ LET loaded == loadSettingsFromFile(heap[Settings])
           filtered == [loaded EXCEPT !.srcDir = FilterSrcDir(@)]
       IN  /\ heap' = [heap EXCEPT ![Settings] = filtered]
           /\ plist' = [plist EXCEPT ![r] = PluginLoop(filtered)]
           /\ log' = [log EXCEPT ![r] = @ \o
                        <<[ev |-> "loadSettings", srcDir |-> filtered.srcDir],
                          [ev |-> "loop", cp |-> "configuration",
                           plugins |-> filtered.plugins]>>]
    /\ pc' = [pc EXCEPT ![r] = "configuration"]
    /\ UNCHANGED <<inputs, pending, Settings, retained, loop, idx, half, state, componentsList,
                   result, watching, magicResult, dist>>

\* loadSettings: the loop over the plugins' configuration hooks
ConfigurationHook(r) ==
    /\ pc[r] = "configuration"
    /\ IF plist[r] = <<>>
       THEN /\ pc' = [pc EXCEPT ![r] = "loaded"]
            /\ log' = [log EXCEPT ![r] =
                         Append(@, [ev |-> "loaded", settings |-> heap[Settings]])]
            /\ UNCHANGED <<Settings, heap, retained, plist, state>>
       ELSE /\ InvokeHook(r, "configuration")
            /\ UNCHANGED pc
    /\ UNCHANGED <<inputs, pending, loop, idx, half, componentsList, result, watching,
                   magicResult, dist>>

\* magic with an action that is neither watch nor build: return false
MagicOtherAction ==
    /\ pc[0] = "loaded"
    /\ action \notin {"watch", "build"}
    /\ pc' = [pc EXCEPT ![0] = "done"]
    /\ magicResult' = "false"
    /\ UNCHANGED <<inputs, pending, Settings, heap, retained, plist, loop, idx, half, state,
                   componentsList, log, result, watching, dist>>

\* what magic does once its own bundle() has ended with outcome o: under
\* build it returns that outcome; under watch it registers the watcher,
\* starts the server and returns true. A failure of bundle() rejects magic.
MagicEndsAlwaysWatching(o) ==
    [magicResult |-> IF o = "threw" THEN o ELSE "true", watching |-> o # "threw"]

MagicEnds(o) ==
    IF action = "build" \/ o = "threw"
    THEN [magicResult |-> o, watching |-> FALSE]
    ELSE [magicResult |-> "true", watching |-> TRUE]

\* run r's bundle() ends with outcome o, having recorded the events evs
End(r, o, evs) ==
    /\ pc' = [pc EXCEPT ![r] = "done"]
    /\ result' = [result EXCEPT ![r] = o]
    /\ log' = [log EXCEPT ![r] = @ \o evs \o <<[ev |-> "return", value |-> o]>>]
    /\ heap' = Collect(heap, Roots(Settings, state, retained, pc'))
    /\ magicResult' = IF r = 0 THEN MagicEnds(o).magicResult ELSE magicResult
    /\ watching' = IF r = 0 THEN MagicEnds(o).watching ELSE watching

(***************************************************************************)
(* bundle(): one build pass.                                               *)
(***************************************************************************)
\* a catch block that reports success
CatchParseReturnsTrue(r, evs) == End(r, "true", evs)

\* catch(e) { logger.error(e); return false; } of the two parse loops
CatchParse(r, evs) == End(r, "false", evs)

\* a pass that keeps the catalog as it was parsed
ResolvedCatalogUnassigned(parsed, resolved) == parsed

\* a pass that adds the resolved components to the parsed ones
ResolvedCatalogAppended(parsed, resolved) == parsed \o resolved

\* state.componentsList = componentsList: the catalog after re-resolution
ResolvedCatalog(parsed, resolved) == resolved

\* parseComponents of utils/file: the components of the files under dir
ParsedComponents(dir) ==
    LET files == SelectSeq(project.components, LAMBDA f : IsUnder(f.dir, dir))
    IN  [i \in 1..Len(files) |->
            [fname |-> files[i].fname, tagName |-> files[i].tagName,
             rawData |-> files[i].markup, node |-> El("#root", files[i].markup),
             props |-> {}]]

\* parsePages of utils/file: the pages of the files under dir
ParsedPages(dir) ==
    LET files == SelectSeq(project.pages, LAMBDA f : IsUnder(f.dir, dir))
    IN  [i \in 1..Len(files) |->
            [fname |-> files[i].fname, childNodes |-> files[i].markup,
             alias |-> files[i].alias]]

\* generateAliasPagesFromPagesList of utils/dom: the pages, then one more
\* page for every page that has an alias
generateAliasPagesFromPagesList(pagesList) ==
    LET aliased == SelectSeq(pagesList, LAMBDA page : page.alias # "")
    IN  pagesList \o [i \in 1..Len(aliased) |->
                         [aliased[i] EXCEPT !.fname = aliased[i].alias, !.alias = ""]]

\* bundle's first lines: the empty State, then the beforeBuild loop
BundleStart(r) ==
    /\ pc[r] = "loaded"
    /\ r = 0 => action \in {"watch", "build"}
    /\ Cardinality(DOMAIN heap) < MaxObjs
    /\ state' = [state EXCEPT ![r] = NewId(heap)]
    /\ heap' = Alloc(heap, EmptyState)
    /\ plist' = [plist EXCEPT ![r] = PluginLoop(heap[Settings])]
    /\ pc' = [pc EXCEPT ![r] = "beforeBuild"]
    /\ log' = [log EXCEPT ![r] = @ \o <<Stage("bundle"), Loop("beforeBuild")>>]
    /\ UNCHANGED <<inputs, pending, Settings, retained, loop, idx, half, componentsList, result,
                   watching, magicResult, dist>>

\* the loop over the plugins' beforeBuild hooks
BeforeBuildHook(r) ==
    /\ pc[r] = "beforeBuild"
    /\ IF plist[r] = <<>>
       THEN /\ pc' = [pc EXCEPT ![r] = "createDir"]
            /\ UNCHANGED <<Settings, heap, retained, plist, state, log>>
       ELSE /\ InvokeHook(r, "beforeBuild")
            /\ UNCHANGED pc
    /\ UNCHANGED <<inputs, pending, loop, idx, half, componentsList, result, watching,
                   magicResult, dist>>

\* how a call that is not awaited comes back: the operation has completed,
\* it is suspended and completes later, or the call threw
CallOutcomes == {"completed", "suspended", "threw"}

\* a call of the file collaborator that bundle has made and not awaited
Call(op, dir, pagesList) == [op |-> op, dir |-> dir, pagesList |-> pagesList]

\* fileUtil.createDir(Settings), outside any try and not awaited
CreateDir(r) ==
    /\ pc[r] = "createDir"
    /\ \E out \in CallOutcomes :
        IF out # "threw"
        THEN /\ pc' = [pc EXCEPT ![r] = "parseComponents"]
             /\ loop' = [loop EXCEPT ![r] = heap[Settings].componentsFolder]
             /\ log' = [log EXCEPT ![r] = Append(@, Stage("createDir"))]
             /\ pending' = [pending EXCEPT ![r] =
                    IF out = "suspended"
                    THEN @ \cup {Call("createDir", heap[Settings].distDir, <<>>)}
                    ELSE @]
             /\ UNCHANGED <<heap, result, watching, magicResult>>
        ELSE /\ End(r, "threw", <<>>)
             /\ UNCHANGED <<loop, pending>>
    /\ UNCHANGED <<inputs, Settings, retained, plist, idx, half, state, componentsList,
                   dist>>

\* the try block over Settings.componentsFolder
ParseComponents(r) ==
    /\ pc[r] = "parseComponents"
    /\ IF loop[r] = <<>>
       THEN /\ pc' = [pc EXCEPT ![r] = "parsePages"]
            /\ loop' = [loop EXCEPT ![r] = heap[Settings].srcDir]
            /\ UNCHANGED <<heap, log, result, watching, magicResult>>
       ELSE \E ok \in BOOLEAN :
            LET dir == Head(loop[r])
                called == [ev |-> "parseComponents", dir |-> dir]
            IN  IF ok
                THEN /\ heap' = [heap EXCEPT ![state[r]].componentsList =
                                    @ \o ParsedComponents(dir)]
                     /\ loop' = [loop EXCEPT ![r] = Tail(@)]
                     /\ log' = [log EXCEPT ![r] = Append(@, called)]
                     /\ UNCHANGED <<pc, result, watching, magicResult>>
                ELSE /\ CatchParse(r, <<called, [ev |-> "error", name |-> "parseComponents"]>>)
                     /\ UNCHANGED loop
    /\ UNCHANGED <<inputs, pending, Settings, retained, plist, idx, half, state, componentsList,
                   dist>>

\* the try block over Settings.srcDir
ParsePages(r) ==
    /\ pc[r] = "parsePages"
    /\ IF loop[r] = <<>>
       THEN /\ pc' = [pc EXCEPT ![r] = "reResolve"]
            /\ idx' = [idx EXCEPT ![r] = 1]
            /\ componentsList' = [componentsList EXCEPT ![r] = <<>>]
            /\ UNCHANGED <<heap, loop, log, result, watching, magicResult>>
       ELSE \E ok \in BOOLEAN :
            LET dir == Head(loop[r])
                called == [ev |-> "parsePages", dir |-> dir]
            IN  IF ok
                THEN /\ heap' = [heap EXCEPT ![state[r]].pagesList = @ \o ParsedPages(dir)]
                     /\ loop' = [loop EXCEPT ![r] = Tail(@)]
                     /\ log' = [log EXCEPT ![r] = Append(@, called)]
                     /\ UNCHANGED <<pc, idx, componentsList, result, watching, magicResult>>
                ELSE /\ CatchParse(r, <<called, [ev |-> "error", name |-> "parsePages"]>>)
                     /\ UNCHANGED <<loop, idx, componentsList>>
    /\ UNCHANGED <<inputs, pending, Settings, retained, plist, half, state, dist>>

\* a page loop that runs the resolver once
RunsAgainNever(n) == FALSE

\* after its n-th resolver run on a page, the loop's body has another: the
\* body calls parseElements on the page's children, and once more
RunsAgain(n) == n < 2

\* a run's record of one call of parseElements
Resolved(of, at, catalog, input, output) ==
    [ev |-> "resolve", of |-> of, at |-> at, catalog |-> catalog, input |-> input,
     output |-> output]

\* the loop over state.componentsList that resolves each component's own
\* children, then state.componentsList = componentsList
ReResolve(r) ==
    /\ pc[r] = "reResolve"
    /\ LET st == heap[state[r]]
       IN  IF idx[r] > Len(st.componentsList)
           THEN /\ heap' = [heap EXCEPT ![state[r]].componentsList =
                               ResolvedCatalog(@, componentsList[r])]
                /\ pc' = [pc EXCEPT ![r] = "resolvePages"]
                /\ idx' = [idx EXCEPT ![r] = 1]
                /\ half' = [half EXCEPT ![r] = 1]
                /\ log' = [log EXCEPT ![r] = Append(@, Stage("catalog"))]
                /\ UNCHANGED <<componentsList, result, watching, magicResult>>
           ELSE \E ok \in BOOLEAN :
                LET component == st.componentsList[idx[r]]
                    parsedNode == parseElements(st.componentsList, component.node.childNodes)
                IN  IF ok /\ parsedNode # <<>>
                    THEN /\ componentsList' = [componentsList EXCEPT ![r] =
                                Append(@, [fname |-> component.fname,
                                           rawData |-> <<parsedNode[1]>>,
                                           tagName |-> component.tagName,
                                           node |-> parsedNode[1],
                                           props |-> {}])]
                         /\ idx' = [idx EXCEPT ![r] = @ + 1]
                         /\ log' = [log EXCEPT ![r] = Append(@,
                                Resolved("component", idx[r], st.componentsList,
                                         component.node.childNodes, parsedNode))]
                         /\ UNCHANGED <<heap, pc, half, result, watching, magicResult>>
                    ELSE /\ End(r, "threw", <<>>)
                         /\ UNCHANGED <<componentsList, idx, half>>
    /\ UNCHANGED <<inputs, pending, Settings, retained, plist, loop, state, dist>>

\* the loop over state.pagesList: parseElements on the page's children,
\* and once more on the result
ResolvePages(r) ==
    /\ pc[r] = "resolvePages"
    /\ LET st == heap[state[r]]
       IN  IF idx[r] > Len(st.pagesList)
           THEN /\ pc' = [pc EXCEPT ![r] = "alias"]
                /\ log' = [log EXCEPT ![r] = Append(@, Stage("pages"))]
                /\ UNCHANGED <<heap, idx, half, result, watching, magicResult>>
           ELSE \E ok \in BOOLEAN :
                LET page == st.pagesList[idx[r]]
                    parsed == parseElements(st.componentsList, page.childNodes)
                IN  IF ok
                    THEN /\ heap' = [heap EXCEPT ![state[r]].pagesList[idx[r]].childNodes =
                                        parsed]
                         /\ half' = [half EXCEPT ![r] = IF RunsAgain(@) THEN @ + 1 ELSE 1]
                         /\ idx' = [idx EXCEPT ![r] = IF RunsAgain(half[r]) THEN @ ELSE @ + 1]
                         /\ log' = [log EXCEPT ![r] = Append(@,
                                Resolved("page", idx[r], st.componentsList,
                                         page.childNodes, parsed))]
                         /\ UNCHANGED <<pc, result, watching, magicResult>>
                    ELSE /\ End(r, "threw", <<>>)
                         /\ UNCHANGED <<idx, half>>
    /\ UNCHANGED <<inputs, pending, Settings, retained, plist, loop, state, componentsList, dist>>

\* state.pagesList = await generateAliasPagesFromPagesList(...), then the
\* afterBuild loop
AliasPages(r) ==
    /\ pc[r] = "alias"
    /\ \E ok \in BOOLEAN :
        IF ok
        THEN /\ heap' = [heap EXCEPT ![state[r]].pagesList =
                            generateAliasPagesFromPagesList(@)]
             /\ plist' = [plist EXCEPT ![r] = PluginLoop(heap[Settings])]
             /\ pc' = [pc EXCEPT ![r] = "afterBuild"]
             /\ log' = [log EXCEPT ![r] = @ \o
                          <<Stage("alias"), [ev |-> "aliased", state |-> heap'[state[r]]],
                            Loop("afterBuild")>>]
             /\ UNCHANGED <<result, watching, magicResult>>
        ELSE /\ End(r, "threw", <<>>)
             /\ UNCHANGED plist
    /\ UNCHANGED <<inputs, pending, Settings, retained, loop, idx, half, state, componentsList,
                   dist>>

\* the loop over the plugins' afterBuild hooks
AfterBuildHook(r) ==
    /\ pc[r] = "afterBuild"
    /\ IF plist[r] = <<>>
       THEN /\ pc' = [pc EXCEPT ![r] = "dumpPages"]
            /\ UNCHANGED <<Settings, heap, retained, plist, state, log>>
       ELSE /\ InvokeHook(r, "afterBuild")
            /\ UNCHANGED pc
    /\ UNCHANGED <<inputs, pending, loop, idx, half, componentsList, result, watching,
                   magicResult, dist>>

\* a pass that goes on to its bundle hooks without writing the pages
DumpPagesSkipped(r) ==
    /\ pc[r] = "dumpPages"
    /\ plist' = [plist EXCEPT ![r] = PluginLoop(heap[Settings])]
    /\ pc' = [pc EXCEPT ![r] = "bundle"]
    /\ log' = [log EXCEPT ![r] = Append(@, Loop("bundle"))]
    /\ UNCHANGED <<inputs, pending, Settings, heap, retained, loop, idx, half, state,
                   componentsList, result, watching, magicResult, dist>>

\* fileUtil.dumpPages(state, libDirname, Settings), outside any try and not
\* awaited, then the bundle loop
DumpPages(r) ==
    /\ pc[r] = "dumpPages"
    /\ \E out \in CallOutcomes :
        IF out # "threw"
        THEN /\ dist' = IF out = "completed"
                        THEN [dir |-> heap[Settings].distDir, by |-> r,
                              pagesList |-> heap[state[r]].pagesList]
                        ELSE dist
             /\ pending' = [pending EXCEPT ![r] =
                    IF out = "suspended"
                    THEN @ \cup {Call("dumpPages", heap[Settings].distDir,
                                      heap[state[r]].pagesList)}
                    ELSE @]
             /\ plist' = [plist EXCEPT ![r] = PluginLoop(heap[Settings])]
             /\ pc' = [pc EXCEPT ![r] = "bundle"]
             /\ log' = [log EXCEPT ![r] = @ \o
                          <<[ev |-> "dumpPages", arg |-> heap[state[r]]], Loop("bundle")>>]
             /\ UNCHANGED <<heap, result, watching, magicResult>>
        ELSE /\ End(r, "threw", <<>>)
             /\ UNCHANGED <<plist, dist, pending>>
    /\ UNCHANGED <<inputs, Settings, retained, loop, idx, half, state, componentsList>>

\* the loop over the plugins' bundle hooks, then return true
BundleHook(r) ==
    /\ pc[r] = "bundle"
    /\ IF plist[r] = <<>>
       THEN /\ End(r, "true", <<>>)
            /\ UNCHANGED <<Settings, retained, plist, state>>
       ELSE /\ InvokeHook(r, "bundle")
            /\ UNCHANGED <<pc, result, watching, magicResult>>
    /\ UNCHANGED <<inputs, pending, loop, idx, half, componentsList, dist>>

\* a plugin writes to the object its hook returned, which it has kept
PluginMutatesReturned ==
    /\ retained # NoRef
    /\ heap[retained] # InPlace(IF "plugins" \in DOMAIN heap[retained]
                                THEN "configuration" ELSE "beforeBuild", heap[retained])
    /\ heap' = [heap EXCEPT ![retained] =
                   InPlace(IF "plugins" \in DOMAIN @ THEN "configuration" ELSE "beforeBuild", @)]
    /\ UNCHANGED <<inputs, pending, Settings, retained, pc, plist, loop, idx, half, state,
                   componentsList, log, result, watching, magicResult, dist>>

(***************************************************************************)
(* The specifications.                                                     *)
(***************************************************************************)
\* the settings files of the pipeline's specification
FileAB == SettingsFile(<<PluginA, PluginB>>, <<DirA, DirAB>>, <<DirAComponents>>)
FileCB == SettingsFile(<<PluginC, PluginB>>, <<DirA>>, <<DirAComponents, DirAComponentsSub>>)

\* the state before magic is called
InitWith(a, prj, f) ==
    /\ action = a
    /\ project = prj
    /\ file = f
    /\ Settings = NoRef
    /\ heap = <<>>
    /\ retained = NoRef
    /\ pc = [r \in Runs |-> "idle"]
    /\ plist = [r \in Runs |-> <<>>]
    /\ loop = [r \in Runs |-> <<>>]
    /\ idx = [r \in Runs |-> 0]
    /\ half = [r \in Runs |-> 1]
    /\ state = [r \in Runs |-> NoRef]
    /\ componentsList = [r \in Runs |-> <<>>]
    /\ log = [r \in Runs |-> <<>>]
    /\ result = [r \in Runs |-> "none"]
    /\ watching = FALSE
    /\ magicResult = "none"
    /\ dist = <<>>
    /\ pending = [r \in Runs |-> {}]

\* the pipeline with plugins, under every action
Init ==
    \E a \in {"build", "watch", "other"}, prj \in Projects,
       f \in {NoFile, FileAB, FileCB} :
        /\ a = "watch" => f = NoFile /\ prj = ProjectNested
        /\ InitWith(a, prj, f)

\* the steps of one run
RunStep(r) ==
    \/ LoadSettings(r)
    \/ ConfigurationHook(r)
    \/ BundleStart(r)
    \/ BeforeBuildHook(r)
    \/ CreateDir(r)
    \/ ParseComponents(r)
    \/ ParsePages(r)
    \/ ReResolve(r)
    \/ ResolvePages(r)
    \/ AliasPages(r)
    \/ AfterBuildHook(r)
    \/ DumpPages(r)
    \/ BundleHook(r)

\* JavaScript runs the code between two awaits without interruption. Run r
\* is inside such a stretch when no await separates its last step from its
\* next one: createDir and dumpPages are called synchronously after a hook
\* loop, and a hook loop awaits nothing for a plugin without the hook or
\* when it ends.
InSyncStretch(r) ==
    \/ pc[r] \in {"createDir", "dumpPages"}
    \/ /\ pc[r] \in Checkpoints
       /\ (plist[r] = <<>> \/ pc[r] \notin Head(plist[r]).hooks)

\* nothing but run r holds the thread
Free(r) == \A q \in Runs \ {r} : ~InSyncStretch(q)

\* a suspended call of run r completes; a completed dumpPages has written
\* the pages
Completes(r) ==
    /\ \A q \in Runs : ~InSyncStretch(q)
    /\ \E call \in pending[r] :
        /\ pending' = [pending EXCEPT ![r] = @ \ {call}]
        /\ dist' = IF call.op = "dumpPages"
                   THEN [dir |-> call.dir, by |-> r, pagesList |-> call.pagesList]
                   ELSE dist
    /\ UNCHANGED <<inputs, Settings, heap, retained, pc, plist, loop, idx, half, state,
                   componentsList, log, result, watching, magicResult>>

Next ==
    \/ MagicStart
    \/ MagicOtherAction
    \/ (\A q \in Runs : ~InSyncStretch(q)) /\ PluginMutatesReturned
    \/ \E r \in Runs : Free(r) /\ (ChangeEvent(r) \/ RunStep(r))
    \/ \E r \in Runs : Completes(r)

Spec == Init /\ [][Next]_vars

\* a build without plugins
NextBuild == MagicStart \/ RunStep(0) \/ Completes(0)

\* the settings file after the user has edited it: one more source
\* directory, another components directory
FileEdited == SettingsFile(<<>>, <<DirA, DirAB>>, <<DirAComponentsSub>>)

\* the user edits the settings file while the watcher is running
SettingsFileEdited ==
    /\ watching
    /\ file # FileEdited
    /\ \A q \in Runs : ~InSyncStretch(q)
    /\ file' = FileEdited
    /\ UNCHANGED <<action, project, pending, Settings, heap, retained, pc, plist, loop,
                   idx, half, state, componentsList, log, result, watching, magicResult,
                   dist>>

\* watch mode with a settings file that is edited
NextWatch ==
    \/ MagicStart
    \/ SettingsFileEdited
    \/ \E r \in Runs : Free(r) /\ (ChangeEvent(r) \/ RunStep(r))
    \/ \E r \in Runs : Completes(r)

InitWatch == InitWith("watch", ProjectNested, NoFile)

SpecWatch == InitWatch /\ [][NextWatch]_vars

\* build passes over every generated project
InitResolve ==
    \E prj \in GeneratedProjects(MaxComponents) : InitWith("build", prj, NoFile)

SpecResolve == InitResolve /\ [][NextBuild]_vars

\* build passes over every srcDir list the settings file may hold
InitDedup ==
    \E list \in SeqsUpTo(DirPool, MaxDirs) :
        InitWith("build", ProjectNested, SettingsFile(<<>>, list, <<DirAComponents>>))

SpecDedup == InitDedup /\ [][NextBuild]_vars

(***************************************************************************)
(* What the runs' records say.                                             *)
(***************************************************************************)
\* the events of run r that satisfy Test
Events(r, Test(_)) == SelectSeq(log[r], Test)

\* the hooks run r has invoked at checkpoint cp, in order
HookEvents(r, cp) == Events(r, LAMBDA e : e.ev = "hook" /\ e.cp = cp)

\* the resolver runs of run r on page k, in order
PageEvents(r, k) == Events(r, LAMBDA e : e.ev = "resolve" /\ e.of = "page" /\ e.at = k)

\* the resolver runs of run r on the components, in order
ComponentEvents(r) == Events(r, LAMBDA e : e.ev = "resolve" /\ e.of = "component")

\* run r has recorded the stage
Reached(r, name) == \E i \in 1..Len(log[r]) : log[r][i] = Stage(name)

\* run r has recorded a failed parse
ParseFailed(r) == \E i \in 1..Len(log[r]) : log[r][i].ev = "error"

\* the names of the plugins of a list that define hook cp
Due(list, cp) ==
    LET with == SelectSeq(list, LAMBDA plugin : cp \in plugin.hooks)
    IN  [i \in 1..Len(with) |-> with[i].pluginName]

\* the names of the plugins a sequence of hook events names
Invoked(events) == [i \in 1..Len(events) |-> events[i].plugin]

\* the position of the checkpoints in a pass
Rank(cp) ==
    CASE cp = "configuration" -> 1
      [] cp = "beforeBuild" -> 2
      [] cp = "afterBuild" -> 3
      [] cp = "bundle" -> 4

\* the first event of run r after position i that is no warning, 0 if none
NextEvent(r, i) ==
    LET later == {j \in (i + 1)..Len(log[r]) : log[r][j].ev # "warn"}
    IN  IF later = {} THEN 0 ELSE CHOOSE j \in later : \A k \in later : j <= k

(***************************************************************************)
(* The claims about the hook pipeline (specification Spec).                *)
(***************************************************************************)
\* C1: whenever a plugin's hook throws, at any checkpoint, a warning that
\* names the plugin is written, the next hook of that checkpoint is handed
\* the state (settings) the failing hook was handed, and the pass goes on:
\* a bundle() whose parsing succeeded returns true.
C1_PluginFailureIsolation ==
    \A r \in Runs : \A i \in 1..Len(log[r]) :
        (log[r][i].ev = "hook" /\ log[r][i].out = "threw") =>
            /\ i < Len(log[r])
            /\ log[r][i + 1].ev = "warn"
            /\ log[r][i + 1].plugin = log[r][i].plugin
            /\ LET j == NextEvent(r, i)
               IN  (j # 0 /\ log[r][j].ev = "hook" /\ log[r][j].cp = log[r][i].cp)
                       => log[r][j].arg = log[r][i].arg
            /\ (pc[r] = "done" /\ Reached(r, "bundle") /\ ~ParseFailed(r))
                   => result[r] = "true"

\* C2: a failed parse of a component or source directory makes bundle()
\* return false, and nothing follows it in that pass: no afterBuild or
\* bundle hook, no resolver run, no alias derivation, no dumpPages; after a
\* failed component directory, no parsePages either.
C2_FatalParsePropagation ==
    \A r \in Runs : \A i \in 1..Len(log[r]) :
        log[r][i].ev = "error" =>
            /\ result[r] = "false"
            /\ pc[r] = "done"
            /\ i + 1 = Len(log[r])
            /\ log[r][i + 1] = [ev |-> "return", value |-> "false"]
            /\ \A j \in 1..Len(log[r]) :
                /\ log[r][j].ev \notin {"resolve", "dumpPages"}
                /\ log[r][j].ev = "stage" => log[r][j].name \notin {"catalog", "pages", "alias"}
                /\ log[r][j].ev = "hook" => log[r][j].cp \notin {"afterBuild", "bundle"}
                /\ log[r][i].name = "parseComponents" => log[r][j].ev # "parsePages"
            /\ dist # <<>> => dist.by # r

\* C2's case: a pass whose beforeBuild hooks ran, whose component
\* directories were parsed and one of whose source directories failed
C2_Witness ==
    \E r \in Runs :
        /\ ParseFailed(r)
        /\ result[r] = "false"
        /\ Len(HookEvents(r, "beforeBuild")) > 0
        /\ \E i \in 1..Len(log[r]) : log[r][i].ev = "parseComponents"
        /\ \E i \in 1..Len(log[r]) : log[r][i] = [ev |-> "error", name |-> "parsePages"]

\* C3: in every run the hooks are invoked checkpoint by checkpoint
\* (configuration, beforeBuild, afterBuild, bundle), and within a checkpoint
\* in the order of the plugin list as the checkpoint's loop found it: each
\* plugin that defines the hook once, none skipped, repeated or reordered.
C3_HookOrdering ==
    \A r \in Runs :
        /\ \A i, j \in 1..Len(log[r]) :
            (i < j /\ log[r][i].ev = "hook" /\ log[r][j].ev = "hook")
                => Rank(log[r][i].cp) <= Rank(log[r][j].cp)
        /\ \A cp \in Checkpoints :
            LET loops == Events(r, LAMBDA e : e.ev = "loop" /\ e.cp = cp)
                invoked == Invoked(HookEvents(r, cp))
            IN  /\ Len(loops) <= 1
                /\ loops = <<>> => invoked = <<>>
                /\ loops # <<>> =>
                    IF pc[r] = cp
                    THEN invoked \o Due(plist[r], cp) = Due(loops[1].plugins, cp)
                    ELSE invoked = Due(loops[1].plugins, cp)

\* C3's case: a pass that has returned true after two beforeBuild hooks and
\* hooks at the three other checkpoints
C3_Witness ==
    \E r \in Runs :
        /\ result[r] = "true"
        /\ Len(HookEvents(r, "configuration")) >= 1
        /\ Len(HookEvents(r, "beforeBuild")) >= 2
        /\ Len(HookEvents(r, "afterBuild")) >= 1
        /\ Len(HookEvents(r, "bundle")) >= 1

\* the value of the object a run's pass works on, and of Settings
Working(h, st, settings) ==
    [r \in {q \in Runs : pc[q] \notin {"idle", "done"} /\ st[q] # NoRef} |-> h[st[r]]]
    @@ (0 - 1 :> IF settings = NoRef THEN <<>> ELSE h[settings])

\* C4: the working state (settings) is a copy of the value a hook returned:
\* when the plugin later writes to the object it returned, the state and
\* the settings of the pipeline stay as they are.
C4_ReplacementDoesNotAlias ==
    [][(/\ retained # NoRef
        /\ retained' = retained
        /\ heap'[retained] # heap[retained]
        /\ pc' = pc
        /\ log' = log)
          => Working(heap', state', Settings') = Working(heap, state, Settings)]_vars

\* C4's case: a pass works on a copy of the state a hook returned, and the
\* plugin has since written to the object it returned
C4_Witness ==
    \E r \in Runs :
        /\ pc[r] \notin {"idle", "done"}
        /\ state[r] # NoRef
        /\ retained # NoRef
        /\ "globalProps" \in DOMAIN heap[retained]
        /\ \E i \in 1..Len(log[r]) : log[r][i].ev = "hook" /\ log[r][i].out = "value"
        /\ "inPlace" \in heap[retained].globalProps
        /\ "inPlace" \notin heap[state[r]].globalProps

\* C5: a hook that returns nothing, or throws, leaves the working state
\* (settings) as it was handed to it, even when it wrote to the object: the
\* next hook of the checkpoint, and dumpPages after the last afterBuild
\* hook, are handed an equal value.
C5_OnlyReturnValueChangesState ==
    \A r \in Runs : \A i \in 1..Len(log[r]) :
        (log[r][i].ev = "hook" /\ log[r][i].out \in {"void", "threw"}) =>
            LET j == NextEvent(r, i)
            IN  (/\ j # 0
                 /\ \/ log[r][j].ev = "dumpPages"
                    \/ log[r][j].ev = "hook" /\ log[r][j].cp = log[r][i].cp)
                    => log[r][j].arg = log[r][i].arg

(***************************************************************************)
(* The srcDir filter (specification SpecDedup).                            *)
(***************************************************************************)
\* the filter as the claim states it: entry A goes when some entry B with
\* another path is a prefix of A and does not end with "components"
ClaimedFilter(list) ==
    LET redundant(A) ==
            \E i \in 1..Len(list) :
                /\ list[i] # A
                /\ StartsWith(A, list[i])
                /\ ~EndsWith(list[i], ComponentsSuffix)
    IN  SelectSeq(list, LAMBDA A : ~redundant(A))

\* C6: loadSettings removes from srcDir exactly the entries that start with
\* another entry which does not end with "components", keeps the entries
\* below a components directory and keeps equal paths; the other entries
\* stay in order. ["/a", "/a/b", "/a/components", "/a/components/sub"]
\* becomes ["/a", "/a/components", "/a/components/sub"].
C6_SettingsDeduplication ==
    \A r \in Runs : \A i \in 1..Len(log[r]) :
        log[r][i].ev = "loadSettings" => log[r][i].srcDir = ClaimedFilter(file.srcDir)

(***************************************************************************)
(* The outcome of a pass and of magic (specification Spec).                *)
(***************************************************************************)
\* C7: a bundle() that has ended has returned true or false, false only
\* after a failed parse: no failure of another stage ends the pass.
C7_OnlyParseFailuresAreFatal ==
    \A r \in Runs :
        (pc[r] = "done" /\ Reached(r, "bundle")) =>
            /\ result[r] \in {"true", "false"}
            /\ result[r] = "false" => ParseFailed(r)

\* C8: under action "build" magic loads the settings once and runs one
\* build pass, and what magic returns is what that pass returned; no second
\* pass is started.
C8_BuildRunsOnePass ==
    action = "build" =>
        /\ \A r \in Runs : r > 0 => pc[r] = "idle" /\ log[r] = <<>>
        /\ ~watching
        /\ Len(Events(0, LAMBDA e : e.ev = "loadSettings")) <= 1
        /\ Len(Events(0, LAMBDA e : e = Stage("bundle"))) <= 1
        /\ Reached(0, "bundle") => Len(Events(0, LAMBDA e : e.ev = "loadSettings")) = 1
        /\ result[0] \in {"true", "false"} => magicResult = result[0]
        /\ magicResult \in {"true", "false"} => magicResult = result[0]

\* C8's case: a build whose pass failed to parse: magic has returned false
C8_Witness ==
    /\ action = "build"
    /\ pc[0] = "done"
    /\ ParseFailed(0)
    /\ magicResult = "false"

(***************************************************************************)
(* Resolution (specification SpecResolve).                                 *)
(***************************************************************************)
\* the project's page references c-box, c-box's markup references c-label,
\* c-label's markup references nothing
DepthTwo ==
    /\ project.components[1].markup = <<El("div", <<El("c-label", <<>>)>>)>>
    /\ project.components[2].markup = <<El("span", <<El("X", <<>>)>>)>>
    /\ project.pages[1].markup = <<El("c-box", <<>>)>>

\* the page of DepthTwo, fully expanded
DepthTwoExpanded == <<El("div", <<El("span", <<El("X", <<>>)>>)>>)>>

RECURSIVE HasTag(_, _)
\* some node of the trees has the tag
HasTag(nodes, tag) ==
    \E i \in 1..Len(nodes) : nodes[i].tag = tag \/ HasTag(nodes[i].childNodes, tag)

\* C9 as claimed: with page -> c-box -> c-label, the page still holds an
\* unresolved c-label after the first page-level resolver run, and is fully
\* expanded after the second.
C9_DepthTwoNeedsBothRuns ==
    \A r \in Runs :
        DepthTwo =>
            LET runs == PageEvents(r, 1)
            IN  /\ Len(runs) >= 1 => HasTag(runs[1].output, "c-label")
                /\ Len(runs) >= 2 => runs[2].output = DepthTwoExpanded

\* C9 as amended: with page -> c-box -> c-label, the page is fully expanded
\* after the two page-level resolver runs, and it is so after the first
\* already: the re-resolution of the catalog has expanded c-label in c-box.
C9_DepthTwoExpandedByFirstRun ==
    \A r \in Runs :
        DepthTwo =>
            LET runs == PageEvents(r, 1)
            IN  /\ \A k \in 1..Len(runs) :
                    /\ runs[k].output = DepthTwoExpanded
                    /\ ~HasReference(runs[k].catalog, runs[k].output)
                /\ pc[r] = "alias" =>
                    /\ Len(runs) = 2
                    /\ heap[state[r]].pagesList[1].childNodes = DepthTwoExpanded

\* C9's case: the pass has resolved the pages of such a project
C9_Witness ==
    /\ DepthTwo
    /\ pc[0] = "alias"
    /\ Len(PageEvents(0, 1)) = 2
    /\ PageEvents(0, 1)[1].input = <<El("c-box", <<>>)>>

\* the catalog the re-resolution step of run r has produced, from its
\* resolver runs
ReResolved(r) ==
    LET runs == ComponentEvents(r)
    IN  [i \in 1..Len(runs) |->
            [fname |-> runs[i].catalog[i].fname, rawData |-> <<runs[i].output[1]>>,
             tagName |-> runs[i].catalog[i].tagName, node |-> runs[i].output[1],
             props |-> {}]]

\* C10: the resolver runs twice on every page of state.pagesList, the
\* second run on the nodes the first returned, both with the catalog the
\* re-resolution step produced, and page.childNodes is the second result.
C10_PageAssembly ==
    \A r \in Runs :
        /\ \A k \in {log[r][i].at : i \in {j \in 1..Len(log[r]) : log[r][j].ev = "resolve"}} :
            LET runs == PageEvents(r, k)
            IN  /\ Len(runs) <= 2
                /\ \A n \in 1..Len(runs) : runs[n].catalog = ReResolved(r)
                /\ Len(runs) = 2 => runs[2].input = runs[1].output
        /\ pc[r] = "alias" =>
            LET pages == heap[state[r]].pagesList
            IN  /\ \A i \in 1..Len(log[r]) :
                    (log[r][i].ev = "resolve" /\ log[r][i].of = "page")
                        => log[r][i].at \in 1..Len(pages)
                /\ \A k \in 1..Len(pages) :
                    /\ Len(PageEvents(r, k)) = 2
                    /\ pages[k].childNodes = PageEvents(r, k)[2].output

\* C10's case: a pass has resolved two pages, and the resolver changed one
C10_Witness ==
    /\ pc[0] = "alias"
    /\ Len(heap[state[0]].pagesList) >= 2
    /\ Len(heap[state[0]].componentsList) >= 2
    /\ \E k \in 1..Len(heap[state[0]].pagesList) :
        /\ PageEvents(0, k)[1].output # PageEvents(0, k)[1].input
        /\ PageEvents(0, k)[2].output # PageEvents(0, k)[2].input

(***************************************************************************)
(* The order of a pass (specification Spec).                               *)
(***************************************************************************)
\* the position in a pass of the stage an event belongs to, 0 for what
\* comes before the pass and for warnings
StageRank(e) ==
    CASE e.ev \in {"hook", "loop"} ->
            (CASE e.cp = "configuration" -> 0
               [] e.cp = "beforeBuild" -> 1
               [] e.cp = "afterBuild" -> 8
               [] e.cp = "bundle" -> 10)
      [] e.ev = "stage" ->
            (CASE e.name = "createDir" -> 2
               [] e.name = "catalog" -> 5
               [] e.name = "pages" -> 6
               [] e.name = "alias" -> 7
               [] OTHER -> 0)
      [] e.ev = "parseComponents" -> 3
      [] e.ev = "parsePages" -> 4
      [] e.ev = "resolve" -> IF e.of = "component" THEN 5 ELSE 6
      [] e.ev = "aliased" -> 7
      [] e.ev = "dumpPages" -> 9
      [] e.ev = "return" -> 11
      [] OTHER -> 0

\* the events of run r's pass, in order
PassEvents(r) == Events(r, LAMBDA e : StageRank(e) > 0)

\* the directories the events of a kind name, in order
Dirs(r, kind) ==
    LET calls == Events(r, LAMBDA e : e.ev = kind)
    IN  [i \in 1..Len(calls) |-> calls[i].dir]

\* C11: a pass that returned true went through its stages in this order:
\* beforeBuild hooks, createDir, parseComponents for each component
\* directory in list order, parsePages for each source directory in list
\* order, component re-resolution, page resolution, alias derivation,
\* afterBuild hooks, dumpPages, bundle hooks, return true, each stage once.
\* The first afterBuild hook is handed the state the alias derivation left,
\* and dumpPages the state the last afterBuild hook left.
C11_StageOrder ==
    \A r \in Runs :
        result[r] = "true" =>
            LET evs == PassEvents(r)
                once(Test(_)) == Len(SelectSeq(evs, Test)) = 1
                after == HookEvents(r, "afterBuild")
                aliased == Events(r, LAMBDA e : e.ev = "aliased")
                dumped == Events(r, LAMBDA e : e.ev = "dumpPages")
            IN  /\ \A i \in 1..(Len(evs) - 1) : StageRank(evs[i]) <= StageRank(evs[i + 1])
                /\ \A cp \in Checkpoints \ {"configuration"} :
                      once(LAMBDA e : e.ev = "loop" /\ e.cp = cp)
                /\ \A name \in {"createDir", "catalog", "pages", "alias"} :
                      once(LAMBDA e : e = Stage(name))
                /\ once(LAMBDA e : e.ev = "aliased")
                /\ once(LAMBDA e : e.ev = "dumpPages")
                /\ once(LAMBDA e : e.ev = "return")
                /\ evs[Len(evs)] = [ev |-> "return", value |-> "true"]
                /\ Dirs(r, "parseComponents") = heap[Settings].componentsFolder
                /\ Dirs(r, "parsePages") = heap[Settings].srcDir
                /\ after # <<>> => after[1].arg = aliased[1].state
                /\ dumped[1].arg = IF after = <<>> THEN aliased[1].state
                                   ELSE after[Len(after)].left

\* C11's case: a pass that returned true, with beforeBuild, afterBuild and
\* bundle hooks, two source directories, and an afterBuild hook that left
\* another state than it was handed
C11_Witness ==
    \E r \in Runs :
        /\ result[r] = "true"
        /\ HookEvents(r, "beforeBuild") # <<>>
        /\ HookEvents(r, "bundle") # <<>>
        /\ Len(Dirs(r, "parsePages")) >= 2
        /\ \E i \in 1..Len(HookEvents(r, "afterBuild")) :
              HookEvents(r, "afterBuild")[i].left # HookEvents(r, "afterBuild")[i].arg

(***************************************************************************)
(* The operations in flight (specification Spec).                          *)
(***************************************************************************)
\* the event records the start of an operation of a pass
IsOperation(e) ==
    \/ e.ev \in {"hook", "parseComponents", "parsePages", "resolve", "aliased",
                 "dumpPages"}
    \/ e = Stage("createDir")

\* run r starts an operation in this step
StartsOperation(r) ==
    \E i \in (Len(log[r]) + 1)..Len(log'[r]) : IsOperation(log'[r][i])

\* C12: a pass starts an operation only when every operation it started
\* before has completed: no createDir or dumpPages of the pass is still in
\* flight when it parses, resolves, derives the aliases, writes the pages
\* or invokes a hook.
C12_OneOperationInFlight ==
    [][\A r \in Runs : StartsOperation(r) => pending[r] = {}]_vars

(***************************************************************************)
(* Three levels of nesting (specification SpecResolve).                    *)
(***************************************************************************)
\* the project's page references c-box, c-box's markup references c-label,
\* c-label's markup references c-deep, c-deep's markup references nothing
DepthThree ==
    /\ project.components[1].markup = <<El("div", <<El("c-label", <<>>)>>)>>
    /\ project.components[2].markup = <<El("span", <<El("c-deep", <<>>)>>)>>
    /\ project.components[3].markup = <<El("p", <<El("X", <<>>)>>)>>
    /\ project.pages[1].markup = <<El("c-box", <<>>)>>

\* the page of DepthThree, fully expanded
DepthThreeExpanded == <<El("div", <<El("span", <<El("p", <<El("X", <<>>)>>)>>)>>)>>

\* some node of the trees has the tag name of a component file
HasComponentTag(nodes) ==
    \E i \in 1..Len(project.components) : HasTag(nodes, project.components[i].tagName)

\* C13 as claimed: with page -> c-box -> c-label -> c-deep, the page the
\* pass has written still holds an unresolved component reference, and
\* bundle() has returned true.
C13_ThreeLevelsUnresolved ==
    \A r \in Runs :
        (DepthThree /\ pc[r] = "done" /\ dist # <<>> /\ dist.by = r) =>
            /\ HasComponentTag(dist.pagesList[1].childNodes)
            /\ result[r] = "true"

\* C13 as amended: with page -> c-box -> c-label -> c-deep, the first
\* page-level resolver run leaves a reference to c-deep, the second expands
\* it, and the page the pass writes holds no component reference; bundle()
\* returns true unless a stage other than the resolver's matching failed.
C13_ThreeLevelsExpanded ==
    \A r \in Runs :
        DepthThree =>
            LET runs == PageEvents(r, 1)
            IN  /\ Len(runs) >= 1 =>
                    runs[1].output = <<El("div", <<El("span", <<El("c-deep", <<>>)>>)>>)>>
                /\ Len(runs) >= 2 => runs[2].output = DepthThreeExpanded
                /\ \A call \in pending[r] :
                      call.op = "dumpPages" => call.pagesList[1].childNodes = DepthThreeExpanded
                /\ (dist # <<>> /\ dist.by = r) =>
                      /\ dist.pagesList[1].childNodes = DepthThreeExpanded
                      /\ ~HasComponentTag(dist.pagesList[1].childNodes)
                      /\ result[r] \in {"none", "true"}

\* C13's case: a pass over such a project has returned true and has
\* written the page
C13_Witness ==
    /\ DepthThree
    /\ result[0] = "true"
    /\ dist # <<>>
    /\ Len(PageEvents(0, 1)) = 2
    /\ PageEvents(0, 1)[1].input = <<El("c-box", <<>>)>>

(***************************************************************************)
(* The passes of watch mode (specification Spec).                          *)
(***************************************************************************)
\* run r is inside bundle()
InPass(pcs, st, r) == st[r] # NoRef /\ pcs[r] \notin {"idle", "done"}

\* C14: every pass starts with a State object of its own whose pagesList,
\* componentsList, globalProps and out.assetsFiles are empty; no two passes
\* work on the same object, and no step but a step of the pass itself
\* changes the value of its State.
C14_StatePrivateToPass ==
    [][\A r \in Runs :
        /\ (pc[r] = "loaded" /\ pc'[r] = "beforeBuild") =>
              /\ state'[r] \notin DOMAIN heap
              /\ heap'[state'[r]].pagesList = <<>>
              /\ heap'[state'[r]].componentsList = <<>>
              /\ heap'[state'[r]].globalProps = {}
              /\ heap'[state'[r]].assetsFiles = <<>>
        /\ InPass(pc', state', r) =>
              /\ state'[r] \notin {Settings', retained'}
              /\ \A q \in Runs \ {r} : InPass(pc', state', q) => state'[q] # state'[r]
        /\ (InPass(pc, state, r) /\ InPass(pc', state', r) /\ log'[r] = log[r]) =>
              heap'[state'[r]] = heap[state[r]]]_vars

\* C14's case: a pass triggered by a change event has just started, with an
\* empty State, while an earlier pass holds parsed components and pages
C14_Witness ==
    \E r, q \in Runs :
        /\ 0 < r /\ r < q
        /\ InPass(pc, state, r) /\ InPass(pc, state, q)
        /\ heap[state[r]].componentsList # <<>>
        /\ heap[state[r]].pagesList # <<>>
        /\ heap[state[q]] = [pagesList |-> <<>>, componentsList |-> <<>>,
                             globalProps |-> {}, assetsFiles |-> <<>>]

\* no run is inside a stretch of synchronous code
ThreadIdle == \A q \in Runs : ~InSyncStretch(q)

\* run r has called dumpPages
Dumped(r) == \E i \in 1..Len(log[r]) : log[r][i].ev = "dumpPages"

\* C15: nothing makes the watcher's callback wait for a running pass. A
\* change event is taken while the pass before it is in flight, and the
\* settings reload, the new pass and its dumpPages go ahead whatever the
\* other passes are doing.
C15_PassesNotSerialized ==
    \A r \in Runs \ {0} :
        /\ (watching /\ pc[r] = "idle" /\ pc[r - 1] # "idle") => ENABLED ChangeEvent(r)
        /\ pc[r] = "loadFile" => ENABLED LoadSettings(r)
        /\ pc[r] = "loaded" => ENABLED BundleStart(r)
        /\ pc[r] = "dumpPages" => ENABLED DumpPages(r)

\* C15's case: two passes started by change events are in flight, and the
\* one started later has written the output directory while the one
\* started earlier has not called dumpPages yet
C15_Witness ==
    \E r, q \in Runs :
        /\ 0 < r /\ r < q
        /\ InPass(pc, state, r) /\ InPass(pc, state, q)
        /\ ~Dumped(r)
        /\ Dumped(q)
        /\ dist # <<>> /\ dist.by = q

(***************************************************************************)
(* Settings in watch mode (specification SpecWatch).                       *)
(***************************************************************************)
\* list s is the beginning of list t
IsPrefix(s, t) == Len(s) <= Len(t) /\ \A i \in 1..Len(s) : s[i] = t[i]

\* C16: what a pass reads from Settings is what the settings load before
\* the pass produced: the plugin list of its hook loops, the component
\* directories and the source directories it parses, whatever reloads and
\* passes later change events have started in the meantime.
C16_SettingsIndependent ==
    \A r \in Runs :
        LET loaded == Events(r, LAMBDA e : e.ev = "loaded")
            loops == Events(r, LAMBDA e : e.ev = "loop" /\ e.cp # "configuration")
        IN  loaded # <<>> =>
                /\ \A i \in 1..Len(loops) : loops[i].plugins = loaded[1].settings.plugins
                /\ IsPrefix(Dirs(r, "parseComponents"), loaded[1].settings.componentsFolder)
                /\ IsPrefix(Dirs(r, "parsePages"), loaded[1].settings.srcDir)
                /\ pc[r] \in {"reResolve", "resolvePages", "alias", "afterBuild",
                              "dumpPages", "bundle"} =>
                      /\ Dirs(r, "parseComponents") = loaded[1].settings.componentsFolder
                      /\ Dirs(r, "parsePages") = loaded[1].settings.srcDir

(***************************************************************************)
(* The srcDir list during a pass (specification Spec).                     *)
(***************************************************************************)
\* no entry of the list starts with another entry of another path, unless
\* that other entry ends with "components"
Deduplicated(list) ==
    \A i, j \in 1..Len(list) :
        (list[i] # list[j] /\ StartsWith(list[i], list[j]))
            => EndsWith(list[j], ComponentsSuffix)

\* C17: every settings load leaves srcDir deduplicated before its first
\* configuration hook, and Settings.srcDir is deduplicated whenever a pass
\* runs its beforeBuild, afterBuild or bundle hooks or parses its pages,
\* also after a configuration hook has replaced Settings.
C17_SrcDirAlwaysDeduplicated ==
    \A r \in Runs :
        /\ \A i \in 1..Len(log[r]) :
              log[r][i].ev = "loadSettings" => Deduplicated(log[r][i].srcDir)
        /\ pc[r] \in {"beforeBuild", "parsePages", "afterBuild", "bundle"}
              => Deduplicated(heap[Settings].srcDir)

(***************************************************************************)
(* The catalog after re-resolution (specification SpecResolve).            *)
(***************************************************************************)
\* the catalog run r parsed, as its resolver runs on the components saw it
ParsedCatalog(r) ==
    IF ComponentEvents(r) = <<>> THEN <<>> ELSE ComponentEvents(r)[1].catalog

\* C18: when the re-resolution step has ended, state.componentsList has
\* the length and the order of the parsed catalog, every entry has the
\* fname and the tagName of the parsed entry at its place and empty props,
\* and the resolver has run once per component, in catalog order, on that
\* component's child nodes. (The step ends only when every component has a
\* child node: it throws on a component without one.)
C18_ReResolutionKeepsShape ==
    \A r \in Runs :
        (Reached(r, "catalog") /\ InPass(pc, state, r)) =>
            LET before == ParsedCatalog(r)
                after == heap[state[r]].componentsList
                runs == ComponentEvents(r)
            IN  /\ Len(after) = Len(before)
                /\ Len(runs) = Len(before)
                /\ \A i \in 1..Len(before) :
                    /\ after[i].fname = before[i].fname
                    /\ after[i].tagName = before[i].tagName
                    /\ after[i].props = {}
                    /\ before[i].node.childNodes # <<>>
                    /\ runs[i].at = i
                    /\ runs[i].catalog = before
                    /\ runs[i].input = before[i].node.childNodes
                /\ (\A i, j \in 1..Len(before) : before[i].tagName = before[j].tagName => i = j)
                      => \A i, j \in 1..Len(after) : after[i].tagName = after[j].tagName => i = j

\* C18's case: the step has ended on a catalog of three components, and it
\* has changed the markup of one of them
C18_Witness ==
    /\ pc[0] = "resolvePages"
    /\ Reached(0, "catalog")
    /\ Len(heap[state[0]].componentsList) >= 3
    /\ \E i \in 1..Len(ParsedCatalog(0)) :
          heap[state[0]].componentsList[i].rawData # ParsedCatalog(0)[i].rawData

(***************************************************************************)
(* The srcDir filter applied again (specification SpecDedup).              *)
(***************************************************************************)
\* C19: the srcDir filter of loadSettings removes nothing from its own
\* output: for every srcDir list of the settings file, filtering the list a
\* settings load has left gives that list again, as the next load of watch
\* mode does.
C19_FilterIdempotent ==
    /\ file.present =>
          FilterSrcDir(FilterSrcDir(file.srcDir)) = FilterSrcDir(file.srcDir)
    /\ \A r \in Runs : \A i \in 1..Len(log[r]) :
          log[r][i].ev = "loadSettings" =>
              FilterSrcDir(log[r][i].srcDir) = log[r][i].srcDir

\* C19's case: a settings load whose filter removed an entry and kept
\* three
C19_Witness ==
    \E i \in 1..Len(log[0]) :
        /\ log[0][i].ev = "loadSettings"
        /\ Len(log[0][i].srcDir) = 3
        /\ Len(file.srcDir) = 4

====
